---- MODULE Spec2Model ----
(***************************************************************************)
(* Block-level Markdown parser (mistune3/block_parser.py, class            *)
(* BlockParser) as a state machine.                                        *)
(*                                                                         *)
(* A source text is a sequence of lines.  A line is a record               *)
(* [q |-> n, b |-> body]: n block-quote markers "> " followed by a body    *)
(* taken from a fixed vocabulary of line bodies, one or two per block      *)
(* rule.  Positions (cursor, match start, match end) are character         *)
(* offsets computed from the lengths of the lines, one more per newline.   *)
(* What a regular expression of the parser matches on a line of the        *)
(* vocabulary is tabulated by the operators named after the rules.         *)
(***************************************************************************)
EXTENDS Integers, Sequences, FiniteSets, TLC

\* ------------------------------------------------------------------ bounds
MaxLines == 3
MaxQuote == 2
MaxNest == 1
MaxRegister == 2
RefQuote == 1
HandlerQuote == 1
RenderDepth == 2
RenderWidth == 2

\* BlockParser(max_nested_level=6)
DefaultMaxNested == 6

\* -------------------------------------------------------------- vocabulary
\* In the line bodies the character ' stands for a backtick, which a TLA+
\* string cannot hold: three of them are a backtick fence, and the body
\* with an a between them is a backtick fence whose info string holds a
\* backtick.
\* line bodies that may open a line of the document
Bodies ==
  { "foo", "", "===", "---", "***", "'''", "'''a'", "# h", "    code",
    "[a]: /u (t)", "[A]: /v", "[a]: <u", "<!-- c -->", "<a>", "<a> x" }

\* line bodies that may follow a block-quote marker
QuotedBodies == { "foo", "", "===", "[a]: /u (t)" }

Line(q, b) == [q |-> q, b |-> b]

Lines ==
  { Line(0, b) : b \in Bodies } \cup
  { Line(q, b) : q \in 1..MaxQuote, b \in QuotedBodies }

RECURSIVE Markers(_)
Markers(q) == IF q = 0 THEN "" ELSE "> " \o Markers(q - 1)

\* the characters of a line, without its newline
LineStr(l) == Markers(l.q) \o l.b

LineLen(l) == 2 * l.q + Len(l.b)

\* a source text: its lines, and whether the last line ends in a newline
Texts(n) ==
  { [lines |-> ls, nl |-> nl] :
      ls \in UNION { [1..k -> Lines] : k \in 1..n }, nl \in BOOLEAN }

\* a text whose last line is blank has its newline (else the line is not there)
WellFormed(t) == t.nl \/ ~(t.lines[Len(t.lines)] = Line(0, ""))

Docs == { t \in Texts(MaxLines) : WellFormed(t) }

\* texts of lines whose handler may decline or take the line, with plain and
\* blank lines, and quoted lines with and without an underline
HandlerBodies == { "foo", "", "===", "---", "'''a'", "[a]: <u", "<a> x" }

HandlerLines ==
  { Line(0, b) : b \in HandlerBodies } \cup
  { Line(q, b) : q \in 1..HandlerQuote, b \in {"foo", "==="} }

HandlerDocs ==
  { t \in { [lines |-> ls, nl |-> nl] :
              ls \in UNION { [1..k -> HandlerLines] : k \in 1..MaxLines },
              nl \in BOOLEAN } : WellFormed(t) }

ListBodies == { "foo", "", "- a", "-", "2. a", "1. a" }

ListDocs ==
  { t \in { [lines |-> ls, nl |-> nl] :
              ls \in UNION { [1..k -> { Line(0, b) : b \in ListBodies }] :
                               k \in 1..MaxLines },
              nl \in BOOLEAN } : WellFormed(t) }

\* texts of one line, for a parser whose rules change between documents
ScDocs == { [lines |-> << Line(0, b) >>, nl |-> TRUE] : b \in {"foo", "- a"} }

\* texts of link reference definitions, plain lines and blank lines, quoted
\* or not
RefBodies == { "foo", "", "[a]: /u (t)", "[A]: /v", "[b]: /w" }

RefLines ==
  { Line(0, b) : b \in RefBodies } \cup
  { Line(q, b) : q \in 1..RefQuote, b \in RefBodies \ {""} }

RefDocs ==
  { t \in { [lines |-> ls, nl |-> nl] :
              ls \in UNION { [1..k -> RefLines] : k \in 1..MaxLines },
              nl \in BOOLEAN } : WellFormed(t) }

\* ----------------------------------------------------- positions in a text
RECURSIVE LineStart(_, _)
\* offset of the first character of line i (i may be one past the last line)
LineStart(ls, i) ==
  IF i <= 1 THEN 0 ELSE LineStart(ls, i - 1) + LineLen(ls[i - 1]) + 1

\* offset just after the last character of line i (its newline, or the end)
LineEnd(ls, i) == LineStart(ls, i) + LineLen(ls[i])

\* len(src)
SrcLen(ls, nl) ==
  IF Len(ls) = 0 THEN 0
  ELSE LineEnd(ls, Len(ls)) + (IF nl THEN 1 ELSE 0)

\* offset just after line i and its newline, if it has one
AfterLine(ls, nl, i) ==
  IF i = Len(ls) THEN SrcLen(ls, nl) ELSE LineStart(ls, i + 1)

\* the line that starts at offset p; 0 if none does
LineAt(ls, p) ==
  IF \E i \in 1..Len(ls) : LineStart(ls, i) = p
  THEN CHOOSE i \in 1..Len(ls) : LineStart(ls, i) = p
  ELSE 0

\* src[LineStart(i):LineStart(j+1)], the lines i..j with their newlines
RECURSIVE Slice(_, _, _, _)
Slice(ls, nl, i, j) ==
  IF i > j THEN ""
  ELSE LineStr(ls[i]) \o (IF i < Len(ls) \/ nl THEN "\n" ELSE "")
       \o Slice(ls, nl, i + 1, j)

IsBlank(l) == l.q = 0 /\ l.b = ""

\* first blank line at or after line i, Len(ls)+1 if none
RECURSIVE FirstBlank(_, _)
FirstBlank(ls, i) ==
  IF i > Len(ls) THEN Len(ls) + 1
  ELSE IF IsBlank(ls[i]) THEN i ELSE FirstBlank(ls, i + 1)

\* first line at or after line i that is not blank, Len(ls)+1 if none
RECURSIVE FirstNonBlank(_, _)
FirstNonBlank(ls, i) ==
  IF i > Len(ls) THEN Len(ls) + 1
  ELSE IF ~IsBlank(ls[i]) THEN i ELSE FirstNonBlank(ls, i + 1)

\* the line that holds offset p (between its start and its end); 0 if none
LineOf(ls, p) ==
  IF \E i \in 1..Len(ls) : LineStart(ls, i) <= p /\ p <= LineEnd(ls, i)
  THEN CHOOSE i \in 1..Len(ls) : LineStart(ls, i) <= p /\ p <= LineEnd(ls, i)
  ELSE 0

\* offset of the start of line k, the end of the text if k is past the last
PosOfLine(ls, nl, k) == IF k > Len(ls) THEN SrcLen(ls, nl) ELSE LineStart(ls, k)

\* ------------------------------------------------------------- BlockState
\* state.py is not part of the sources at hand; the operations of BlockState
\* follow their description in the specification of the block parser.

\* BlockState(parent) followed by process(src)
NewState(ls, nl, in_block) ==
  [ src |-> ls, nl |-> nl, cursor |-> 0, cursor_max |-> SrcLen(ls, nl),
    tokens |-> <<>>, in_block |-> in_block, list_tight |-> TRUE ]

last_token(st) ==
  IF Len(st.tokens) = 0 THEN [type |-> "none"] ELSE st.tokens[Len(st.tokens)]

has_last_paragraph(st) == last_token(st).type = "paragraph"

append_token(st, tok) == [st EXCEPT !.tokens = Append(@, tok)]

\* insert before the most recently appended token
prepend_token(st, tok) ==
  LET n == Len(st.tokens) IN
  [st EXCEPT !.tokens =
     IF n = 0 THEN <<tok>>
     ELSE SubSeq(@, 1, n - 1) \o <<tok>> \o SubSeq(@, n, n)]

\* offset just after the current logical line
find_line_end(st) ==
  LET i == LineOf(st.src, st.cursor) IN
  IF i = 0 THEN st.cursor_max ELSE AfterLine(st.src, st.nl, i)

\* src[cursor:end_pos], for a cursor and an end at line starts
get_text(st, end_pos) ==
  LET i == LineAt(st.src, st.cursor)
      j == IF end_pos >= st.cursor_max THEN Len(st.src) + 1
           ELSE LineAt(st.src, end_pos)
  IN IF i = 0 THEN "" ELSE Slice(st.src, st.nl, i, j - 1)

\* start a paragraph, or extend the open one
add_paragraph(st, text) ==
  IF has_last_paragraph(st)
  THEN [st EXCEPT !.tokens[Len(st.tokens)].text = @ \o text]
  ELSE append_token(st, [type |-> "paragraph", text |-> text])

\* the open paragraph takes the current logical line: the new state and the
\* new cursor; end_pos = 0 stands for None (no paragraph is open)
append_paragraph(st) ==
  IF has_last_paragraph(st)
  THEN LET pos == find_line_end(st) IN
       [ st |-> [st EXCEPT !.tokens[Len(st.tokens)].text = @ \o get_text(st, pos),
                           !.cursor = pos],
         end_pos |-> pos ]
  ELSE [ st |-> st, end_pos |-> 0 ]

\* ------------------------------------------------------------ rule matcher
RULE_NAMES ==
  << "blank_line", "fenced_code", "indent_code", "axt_heading",
     "setex_heading", "thematic_break", "block_quote", "ref_link", "raw_html" >>

\* the names that have a pattern in SPECIFICATION
SPECIFICATION_KEYS ==
  { "blank_line", "axt_heading", "setex_heading", "fenced_code", "indent_code",
    "thematic_break", "ref_link", "block_quote", "list", "block_html", "raw_html" }

\* whether the pattern SPECIFICATION[rule] matches at the start of line l
Matches(rule, l) ==
  CASE rule = "block_quote"    -> l.q >= 1
    [] rule = "blank_line"     -> l.q = 0 /\ l.b = ""
    [] rule = "axt_heading"    -> l.q = 0 /\ l.b = "# h"
    [] rule = "setex_heading"  -> l.q = 0 /\ l.b \in {"===", "---"}
    [] rule = "fenced_code"    -> l.q = 0 /\ l.b \in {"'''", "'''a'"}
    [] rule = "indent_code"    -> l.q = 0 /\ l.b = "    code"
    [] rule = "thematic_break" -> l.q = 0 /\ l.b \in {"---", "***"}
    [] rule = "ref_link"       ->
         l.q = 0 /\ l.b \in {"[a]: /u (t)", "[A]: /v", "[b]: /w", "[a]: <u"}
    [] rule = "raw_html"       -> l.q = 0 /\ l.b \in {"<!-- c -->", "<a>", "<a> x"}
    [] rule = "block_html"     -> l.q = 0 /\ l.b = "<!-- c -->"
    [] rule = "list"           -> l.q = 0 /\ l.b \in {"- a", "-", "2. a", "1. a"}
    [] OTHER                   -> FALSE

\* first rule of the alternation sc that matches line l, "" if none
RECURSIVE FirstRule(_, _, _)
FirstRule(sc, l, k) ==
  IF k > Len(sc) THEN ""
  ELSE IF Matches(sc[k], l) THEN sc[k] ELSE FirstRule(sc, l, k + 1)

\* first line at or after line i that some rule of sc matches, 0 if none
RECURSIVE FirstMatch(_, _, _)
FirstMatch(sc, ls, i) ==
  IF i > Len(ls) \/ i < 1 THEN 0
  ELSE IF FirstRule(sc, ls[i], 1) /= "" THEN i ELSE FirstMatch(sc, ls, i + 1)

\* sc.search(state.src, state.cursor): the matched line and m.lastgroup
sc_search(sc, st) ==
  LET i == FirstMatch(sc, st.src, LineAt(st.src, st.cursor)) IN
  [ line |-> i, lastgroup |-> IF i = 0 THEN "" ELSE FirstRule(sc, st.src[i], 1) ]

\* state.match(sc): the same alternation tried at the cursor only
sc_match(sc, st) ==
  LET i == LineAt(st.src, st.cursor)
      r == IF i = 0 THEN "" ELSE FirstRule(sc, st.src[i], 1)
  IN [ line |-> IF r = "" THEN 0 ELSE i, lastgroup |-> r ]

\* ----------------------------------------------------------- rule handlers
\* A handler takes the matched line i (the cursor is at its start), the state
\* and env['ref_links'], and gives the state and the table it leaves and its
\* return value; ret = 0 stands for None.
Result(st, ret, env) == [ st |-> st, ret |-> ret, env |-> env, err |-> "none" ]

Raise(st, env, exc) == [ st |-> st, ret |-> 0, env |-> env, err |-> exc ]

\* util.escape on one line body: & < > and the double quote become entities
EscapeBody(b) ==
  CASE b = "<!-- c -->" -> "&lt;!-- c --&gt;"
    [] b = "<a>"        -> "&lt;a&gt;"
    [] b = "<a> x"      -> "&lt;a&gt; x"
    [] b = "[a]: <u"    -> "[a]: &lt;u"
    [] OTHER            -> b

RECURSIVE EscapeMarkers(_)
EscapeMarkers(q) == IF q = 0 THEN "" ELSE "&gt; " \o EscapeMarkers(q - 1)

\* escape(src[LineStart(i):LineStart(j+1)])
RECURSIVE EscapeSlice(_, _, _, _)
EscapeSlice(ls, nl, i, j) ==
  IF i > j THEN ""
  ELSE EscapeMarkers(ls[i].q) \o EscapeBody(ls[i].b)
       \o (IF i < Len(ls) \/ nl THEN "\n" ELSE "")
       \o EscapeSlice(ls, nl, i + 1, j)

parse_blank_line(i, st, env) ==
  Result(append_token(st, [type |-> "blank_line"]),
         PosOfLine(st.src, st.nl, FirstNonBlank(st.src, i)), env)

parse_thematic_break(i, st, env) ==
  Result(append_token(st, [type |-> "thematic_break"]),
         LineEnd(st.src, i) + 1, env)

IsIndentCode(l) == l.q = 0 /\ l.b = "    code"

\* first line at or after i that INDENT_CODE does not run over
RECURSIVE IndentCodeStop(_, _)
IndentCodeStop(ls, i) ==
  IF i > Len(ls) THEN Len(ls) + 1
  ELSE IF IsIndentCode(ls[i]) \/ IsBlank(ls[i]) THEN IndentCodeStop(ls, i + 1)
  ELSE i

\* the code of lines i..j: indentation trimmed, newlines at the end stripped
RECURSIVE IndentCodeRaw(_, _, _)
IndentCodeRaw(ls, i, j) ==
  IF i > j THEN ""
  ELSE IF \A k \in i..j : IsBlank(ls[k]) THEN ""
  ELSE (IF IsIndentCode(ls[i]) THEN "code" ELSE "")
       \o (IF \E k \in (i + 1)..j : IsIndentCode(ls[k]) THEN "\n" ELSE "")
       \o IndentCodeRaw(ls, i + 1, j)

parse_indent_code(i, st, env) ==
  LET ap == append_paragraph(st)
      k  == IndentCodeStop(st.src, i + 1)
  IN IF ap.end_pos /= 0 THEN Result(ap.st, ap.end_pos, env)
     ELSE Result(append_token(st, [type |-> "block_code",
                                   raw |-> IndentCodeRaw(st.src, i, k - 1)]),
                 PosOfLine(st.src, st.nl, k), env)

IsFenceEnd(l) == l.q = 0 /\ l.b = "'''"

RECURSIVE FirstFenceEnd(_, _)
FirstFenceEnd(ls, i) ==
  IF i > Len(ls) THEN Len(ls) + 1
  ELSE IF IsFenceEnd(ls[i]) THEN i ELSE FirstFenceEnd(ls, i + 1)

\* parse_fenced_code that moves the cursor past the opening line before it
\* looks at the info string
parse_fenced_code_moves(i, st, env) ==
  LET ls    == st.src
      k     == FirstFenceEnd(ls, i + 1)
      first == IF i < Len(ls) \/ st.nl THEN "\n" ELSE ""
      code  == first \o EscapeSlice(ls, st.nl, i + 1, k - 1)
      end_pos == IF k <= Len(ls) THEN AfterLine(ls, st.nl, k) ELSE st.cursor_max
  IN IF ls[i].b = "'''a'"
     THEN Result([st EXCEPT !.cursor = AfterLine(ls, st.nl, i)], 0, env)
     ELSE Result(append_token(st, [type |-> "block_code", raw |-> code,
                                   fenced |-> TRUE]),
                 end_pos, env)

parse_fenced_code(i, st, env) ==
  LET ls    == st.src
      info  == IF ls[i].b = "'''a'" THEN "a'" ELSE ""
      k     == FirstFenceEnd(ls, i + 1)
      first == IF i < Len(ls) \/ st.nl THEN "\n" ELSE ""
      code  == first \o EscapeSlice(ls, st.nl, i + 1, k - 1)
      end_pos == IF k <= Len(ls) THEN AfterLine(ls, st.nl, k) ELSE st.cursor_max
  IN IF info /= ""
     THEN Result(st, 0, env)
     ELSE Result(append_token(st, [type |-> "block_code", raw |-> code,
                                   fenced |-> TRUE]),
                 end_pos, env)

parse_axt_heading(i, st, env) ==
  Result(append_token(st, [type |-> "heading", text |-> "h",
                           attrs |-> [level |-> 1]]),
         LineEnd(st.src, i) + 1, env)

\* parse_setex_heading that appends the heading and keeps the paragraph
parse_setex_heading_appends(i, st, env) ==
  LET n     == Len(st.tokens)
      level == IF st.src[i].b = "===" THEN 1 ELSE 2
  IN IF has_last_paragraph(st)
     THEN Result(append_token(st, [type |-> "heading", text |-> st.tokens[n].text,
                                   attrs |-> [level |-> level]]),
                 LineEnd(st.src, i) + 1, env)
     ELSE Result(st, 0, env)

parse_setex_heading(i, st, env) ==
  LET n     == Len(st.tokens)
      level == IF st.src[i].b = "===" THEN 1 ELSE 2
  IN IF has_last_paragraph(st)
     THEN Result([st EXCEPT !.tokens[n] =
                     [type |-> "heading", text |-> st.tokens[n].text,
                      attrs |-> [level |-> level]]],
                 LineEnd(st.src, i) + 1, env)
     ELSE Result(st, 0, env)

\* util.unikey of the label of a link reference definition: the label in
\* lower case
unikey(b) == IF b = "[b]: /w" THEN "b" ELSE "a"

\* helpers.parse_link_href: whether a destination follows the colon
HasHref(b) == b \in {"[a]: /u (t)", "[A]: /v", "[b]: /w"}

\* the attrs of the definition: unescape_char, escape_url, safe_entity
RefAttrs(b) ==
  CASE b = "[a]: /u (t)" -> [url |-> "/u", title |-> "t"]
    [] b = "[b]: /w"     -> [url |-> "/w"]
    [] OTHER             -> [url |-> "/v"]

Put(env, key, attrs) ==
  [k \in DOMAIN env \cup {key} |-> IF k = key THEN attrs ELSE env[k]]

\* parse_ref_link without the test that the key is not yet in the table
parse_ref_link_overwrites(i, st, env) ==
  LET ap  == append_paragraph(st)
      b   == st.src[i].b
      has_newline == i < Len(st.src) \/ st.nl
  IN IF ap.end_pos /= 0 THEN Result(ap.st, ap.end_pos, env)
     ELSE IF ~HasHref(b) \/ ~has_newline THEN Result(st, 0, env)
     ELSE Result(st, AfterLine(st.src, st.nl, i),
                 Put(env, unikey(b), RefAttrs(b)))

\* parse_ref_link without the call of append_paragraph
parse_ref_link_interrupts(i, st, env) ==
  LET b   == st.src[i].b
      key == unikey(b)
      has_newline == i < Len(st.src) \/ st.nl
  IN IF ~HasHref(b) \/ ~has_newline THEN Result(st, 0, env)
     ELSE IF key \notin DOMAIN env
          THEN Result(st, AfterLine(st.src, st.nl, i), Put(env, key, RefAttrs(b)))
          ELSE Result(st, AfterLine(st.src, st.nl, i), env)

parse_ref_link(i, st, env) ==
  LET ap  == append_paragraph(st)
      b   == st.src[i].b
      key == unikey(b)
      \* the destination or the title is followed by [ \t]*\n
      has_newline == i < Len(st.src) \/ st.nl
      end_pos == AfterLine(st.src, st.nl, i)
  IN IF ap.end_pos /= 0 THEN Result(ap.st, ap.end_pos, env)
     ELSE IF ~HasHref(b) THEN Result(st, 0, env)
     ELSE IF ~has_newline THEN Result(st, 0, env)
     ELSE IF key \notin DOMAIN env
          THEN Result(st, end_pos, Put(env, key, RefAttrs(b)))
          ELSE Result(st, end_pos, env)

\* _parse_html_to_end for the end string of a comment, which closes on the
\* matched line: the cursor is moved past the start string first
_parse_html_to_end(i, st, env) ==
  Result(append_token([st EXCEPT !.cursor = LineEnd(st.src, i) - 3],
                      [type |-> "block_html",
                       raw |-> Slice(st.src, st.nl, i, i)]),
         AfterLine(st.src, st.nl, i), env)

_parse_html_to_newline(i, st, env) ==
  LET k == FirstBlank(st.src, i) IN
  Result(append_token(st, [type |-> "block_html",
                           raw |-> Slice(st.src, st.nl, i, k - 1)]),
         PosOfLine(st.src, st.nl, k), env)

parse_raw_html(i, st, env) ==
  LET b  == st.src[i].b
      ap == append_paragraph(st)
  IN IF b = "<!-- c -->" THEN _parse_html_to_end(i, st, env)
     ELSE IF ap.end_pos /= 0 THEN Result(ap.st, ap.end_pos, env)
     ELSE IF b = "<a>" THEN _parse_html_to_newline(i, st, env)
     ELSE Result(st, 0, env)

\* _parse_list_item up to its first write: it reads self.THEMATIC_BREAK,
\* which a BlockParser does not have
_parse_list_item(i, st, env) == Raise(st, env, "AttributeError")

\* group list_3 of the match is blank
ListTextBlank(b) == b = "-"

\* the marker is a number other than 1
ListStartsLate(b) == b = "2. a"

\* parse_list(m, state) for the match m of LIST at line i
parse_list(i, st, env) ==
  LET ap == append_paragraph(st)
      b  == st.src[i].b
  IN IF ListTextBlank(b) /\ ap.end_pos /= 0 THEN Result(ap.st, ap.end_pos, env)
     ELSE IF ListStartsLate(b) /\ ap.end_pos /= 0
     THEN Result(ap.st, ap.end_pos, env)
     ELSE _parse_list_item(i, st, env)

\* self.__methods[m.lastgroup](m, state), for the rules that hold no other
\* blocks; mth is the set of names in self.__methods
parse_method(rule, i, st, env, mth) ==
  IF rule \notin mth THEN Raise(st, env, "KeyError")
  ELSE CASE rule = "blank_line"     -> parse_blank_line(i, st, env)
         [] rule = "thematic_break" -> parse_thematic_break(i, st, env)
         [] rule = "indent_code"    -> parse_indent_code(i, st, env)
         [] rule = "fenced_code"    -> parse_fenced_code(i, st, env)
         [] rule = "axt_heading"    -> parse_axt_heading(i, st, env)
         [] rule = "setex_heading"  -> parse_setex_heading(i, st, env)
         [] rule = "ref_link"       -> parse_ref_link(i, st, env)
         [] rule = "raw_html"       -> parse_raw_html(i, st, env)
         \* a registered rule is stored as a function of one argument, the
         \* state, and called with two
         [] OTHER                   -> Raise(st, env, "TypeError")

\* --------------------------------------------------------------- compile_sc
Range(s) == { s[k] : k \in 1..Len(s) }

\* the key of the matcher cache: '$' for the parser's rules, else the names
ScKey(rules_arg) == IF rules_arg = <<>> THEN <<"$">> ELSE rules_arg

\* compile_sc(rules): rules_arg = <<>> stands for None; the matcher handed
\* out, the cache afterwards, and the exception if one is raised
compile_sc(rules_arg, own_rules, cache) ==
  LET key   == ScKey(rules_arg)
      rules == IF rules_arg = <<>> THEN own_rules ELSE rules_arg
  IN IF key \in DOMAIN cache
     THEN [ sc |-> cache[key], cache |-> cache, err |-> "none" ]
     ELSE IF ~(Range(rules) \subseteq SPECIFICATION_KEYS)
     THEN [ sc |-> <<>>, cache |-> cache, err |-> "KeyError" ]
     ELSE IF Cardinality(Range(rules)) < Len(rules)
     THEN [ sc |-> <<>>, cache |-> cache, err |-> "re.error" ]
     ELSE [ sc |-> rules,
            cache |-> [k \in DOMAIN cache \cup {key} |->
                         IF k = key THEN rules ELSE cache[k]],
            err |-> "none" ]

\* ------------------------------------------------------------- block quote
block_quote_rules == RULE_NAMES

\* the line without its first marker and the space after it
Dequote(l) == Line(l.q - 1, l.b)

RECURSIVE DequoteAll(_, _, _)
DequoteAll(ls, i, j) ==
  IF i > j THEN <<>> ELSE <<Dequote(ls[i])>> \o DequoteAll(ls, i + 1, j)

\* first line at or after i that STRICT_BLOCK_QUOTE does not run over
RECURSIVE QuoteRunStop(_, _)
QuoteRunStop(ls, i) ==
  IF i > Len(ls) THEN Len(ls) + 1
  ELSE IF ls[i].q >= 1 THEN QuoteRunStop(ls, i + 1) ELSE i

StartRules == << "blank_line", "indent_code", "fenced_code" >>

BreakRules == << "blank_line", "thematic_break", "fenced_code", "block_html" >>

\* the text of the child state: line i and the run of marked lines i+1..k-1,
\* without their markers
QuoteText(ls, nl, i, k) ==
  LET lines == <<Dequote(ls[i])>> \o DequoteAll(ls, i + 1, k - 1)
      n     == Len(lines)
  IN IF k = i + 1 \/ k - 1 < Len(ls) \/ nl
     THEN [ lines |-> lines, nl |-> TRUE ]
     \* the text ends with the run's last line, which has no newline: a
     \* marker alone adds nothing to the text
     ELSE IF IsBlank(lines[n])
     THEN [ lines |-> SubSeq(lines, 1, n - 1), nl |-> TRUE ]
     ELSE [ lines |-> lines, nl |-> FALSE ]

\* state.cursor once line i and the run i+1..k-1 are taken
QuoteCursor(ls, nl, i, k) ==
  IF k > i + 1 THEN PosOfLine(ls, nl, k) ELSE LineEnd(ls, i) + 1

\* not quote.strip(), or _LINE_BLANK_END.search(quote), for the run in text
PrevBlankLine(text) ==
  LET n == Len(text.lines) IN
  /\ n >= 2
  /\ \/ \A j \in 2..n : IsBlank(text.lines[j])
     \/ n >= 3 /\ IsBlank(text.lines[n]) /\ text.nl

QuoteOut(text, st, env, end_pos, exc, brk, lazy, require_marker) ==
  [ text |-> text, st |-> st, env |-> env, end_pos |-> end_pos, err |-> exc,
    brk |-> brk, lazy |-> lazy, require_marker |-> require_marker ]

\* the lazy loop after the break rule of match m has run with result r
quote_broken(text, st, env, m, r) ==
  IF r.err /= "none" THEN QuoteOut(text, r.st, env, 0, r.err, m.lastgroup, FALSE, FALSE)
  ELSE IF r.ret /= 0 THEN QuoteOut(text, r.st, env, r.ret, "none", m.lastgroup, FALSE, FALSE)
  \* self.find_line_end(): a BlockParser has no such method
  ELSE QuoteOut(text, r.st, env, 0, "AttributeError", m.lastgroup, TRUE, FALSE)

\* the lazy loop at a line without marker: m = state.match(break_sc)
quote_lazy(text, st, env, mth, m) ==
  \* parse_method(None, state): None has no lastgroup
  IF m.line = 0 THEN QuoteOut(text, st, env, 0, "AttributeError", "", TRUE, FALSE)
  ELSE quote_broken(text, st, env, m,
                    parse_method(m.lastgroup, m.line, st, env, mth))

\* the end of line i and of the run of marked lines after it, in state st
\* whose cursor is past them
quote_lines(text, st, env, mth, require_marker) ==
  IF require_marker \/ st.cursor >= st.cursor_max \/ PrevBlankLine(text)
  THEN QuoteOut(text, st, env, 0, "none", "", FALSE, require_marker)
  ELSE quote_lazy(text, st, env, mth, sc_match(BreakRules, st))

quote_run(i, st, env, mth, k) ==
  quote_lines(QuoteText(st.src, st.nl, i, k),
              [st EXCEPT !.cursor = QuoteCursor(st.src, st.nl, i, k)],
              env, mth,
              FirstRule(StartRules, Dequote(st.src[i]), 1) /= "")

\* parse_block_quote up to the scan of the child state: the text of the
\* child, the outer state (its cursor moved, the token of a break rule
\* appended), end_pos (0 for None), and what the lazy loop met
quote_scan(i, st, env, mth) ==
  quote_run(i, st, env, mth,
            IF i < Len(st.src) THEN QuoteRunStop(st.src, i + 1) ELSE i + 1)

\* the rules of the child state of a block quote in a state of depth d
QuoteChildRules(d, max_nested) ==
  IF d >= max_nested
  THEN SelectSeq(block_quote_rules, LAMBDA r : r /= "block_quote")
  ELSE block_quote_rules

\* parse_block_quote after the scan of the child: the outer state with the
\* quote's token, and the cursor it returns
quote_finish(st, children, end_pos) ==
  LET token == [type |-> "block_quote", children |-> children] IN
  IF end_pos /= 0
  THEN [ st |-> prepend_token(st, token), ret |-> end_pos ]
  ELSE [ st |-> append_token(st, token), ret |-> st.cursor ]

\* ------------------------------------------------------------------- state
VARIABLES
  input,             \* the text handed to parse
  max_nested_level,  \* BlockParser.max_nested_level
  rules,             \* BlockParser.rules
  methods,           \* the names in BlockParser.__methods
  sc_cache,          \* BlockParser.__sc: key -> the rules compiled into it
  phase,             \* "idle", "parsing", "done"
  stack,             \* the states being parsed, the root first
  ref_links,         \* env['ref_links'], shared by the states of a document
  err,               \* the exception that left parse, "none" if none
  call,              \* the last handler call: state and table before, after
  quote,             \* the last scan of a block quote's lines
  defs,              \* the definitions parse_ref_link accepted, in order
  handed,            \* what compile_sc(None) last returned to parse
  render             \* the token list handed to render, and what it returned

vars ==
  << input, max_nested_level, rules, methods, sc_cache, phase, stack,
     ref_links, err, call, quote, defs, handed, render >>

EmptyMap == [k \in {} |-> 0]

NoCall == [ rule |-> "" ]

NoQuote ==
  [ brk |-> "", lazy |-> FALSE, err |-> "none", returned |-> FALSE, n0 |-> 0,
    tokens |-> <<>> ]

NoHanded == [ key |-> <<>>, sc |-> <<>>, err |-> "none", rules |-> <<>> ]

NoRender == [ done |-> FALSE, tokens |-> <<>>, result |-> <<>> ]

\* one entry of the stack: a state, the matcher parse compiled for it, the
\* cursor at the start of its current iteration (-1 before the first), whether
\* that iteration has ended, whether parse has returned, and, while
\* parse_block_quote waits for the child state, what it holds
Frame(st, sc) ==
  [ st |-> st, sc |-> sc, it0 |-> -1, ended |-> TRUE, returned |-> FALSE,
    end_pos |-> 0, brk |-> "", lazy |-> FALSE, n0 |-> 0 ]

Top == stack[Len(stack)]

\* BlockState.depth() of the state on top of the stack
Depth == Len(stack) - 1

ParserInit ==
  /\ rules = RULE_NAMES
  /\ methods = Range(RULE_NAMES)
  /\ sc_cache = EmptyMap
  /\ phase = "idle"
  /\ stack = <<>>
  /\ ref_links = EmptyMap
  /\ err = "none"
  /\ call = NoCall
  /\ quote = NoQuote
  /\ defs = <<>>
  /\ handed = NoHanded
  /\ render = NoRender

Init ==
  /\ input \in Docs
  /\ max_nested_level \in 0..MaxNest
  /\ ParserInit

\* ------------------------------------------------------------------- parse
\* parse(state) on a new root state: compile_sc(None), then the loop
parse_begin ==
  /\ phase = "idle"
  /\ LET c == compile_sc(<<>>, rules, sc_cache) IN
       /\ handed' = [ key |-> ScKey(<<>>), sc |-> c.sc, err |-> c.err,
                      rules |-> rules ]
       /\ sc_cache' = c.cache
       /\ err' = c.err
       /\ phase' = "parsing"
       /\ stack' = IF c.err = "none"
                   THEN << Frame(NewState(input.lines, input.nl, "document"), c.sc) >>
                   ELSE <<>>
  /\ ref_links' = EmptyMap
  /\ call' = NoCall
  /\ quote' = NoQuote
  /\ defs' = <<>>
  /\ UNCHANGED << input, max_nested_level, rules, methods, render >>

Running ==
  /\ phase = "parsing"
  /\ err = "none"
  /\ Len(stack) > 0
  /\ ~Top.returned
  /\ Top.st.cursor < Top.st.cursor_max

\* the state once the text before the match is flushed as paragraph text
Flushed(st, i) ==
  LET end_pos == LineStart(st.src, i) IN
  IF end_pos > st.cursor
  THEN [add_paragraph(st, get_text(st, end_pos)) EXCEPT !.cursor = end_pos]
  ELSE st

\* the end of an iteration: the handler has returned r on the flushed state
\* st1; line 590 reads the undefined name pos when r.ret is None
Dispatched(rule, i, st1, r) ==
  /\ stack' = [stack EXCEPT ![Len(stack)] =
                 [@ EXCEPT !.st = IF r.ret /= 0 THEN [r.st EXCEPT !.cursor = r.ret]
                                  ELSE r.st,
                           !.it0 = Top.st.cursor,
                           !.ended = (r.err = "none" /\ r.ret /= 0)]]
  /\ ref_links' = r.env
  /\ err' = IF r.err /= "none" THEN r.err
            ELSE IF r.ret = 0 THEN "NameError" ELSE "none"
  /\ call' = [ by |-> "parse", rule |-> rule, before |-> st1, after |-> r.st,
               env0 |-> ref_links, env1 |-> r.env, ret |-> r.ret,
               err |-> r.err ]
  /\ defs' = IF rule = "ref_link" /\ r.ret /= 0 /\ ~has_last_paragraph(st1)
             THEN Append(defs, [ key |-> unikey(st1.src[i].b),
                                 attrs |-> RefAttrs(st1.src[i].b) ])
             ELSE defs

Dispatch(rule, i, st1) ==
  Dispatched(rule, i, st1, parse_method(rule, i, st1, ref_links, methods))

Matched(rule, m) ==
  /\ m.line /= 0
  /\ m.lastgroup = rule

\* the iteration of the loop of parse that follows the match m, when
\* m.lastgroup is rule
Found(rule, m) ==
  /\ Matched(rule, m)
  /\ Dispatch(rule, m.line, Flushed(Top.st, m.line))
  /\ UNCHANGED << input, max_nested_level, rules, methods, sc_cache, phase,
                  quote, handed, render >>

\* one iteration of the loop of parse that dispatches to the handler of rule
Iterate(rule) == Found(rule, sc_search(Top.sc, Top.st))

do_blank_line ==
  /\ Running
  /\ Iterate("blank_line")

do_thematic_break ==
  /\ Running
  /\ Iterate("thematic_break")

do_indent_code ==
  /\ Running
  /\ Iterate("indent_code")

do_fenced_code ==
  /\ Running
  /\ Iterate("fenced_code")

do_axt_heading ==
  /\ Running
  /\ Iterate("axt_heading")

do_setex_heading ==
  /\ Running
  /\ Iterate("setex_heading")

do_ref_link ==
  /\ Running
  /\ Iterate("ref_link")

do_raw_html ==
  /\ Running
  /\ Iterate("raw_html")

Add(cache, key, sc) ==
  [k \in DOMAIN cache \cup {key} |-> IF k = key THEN sc ELSE cache[k]]

\* the matcher cache once parse_block_quote has compiled its own matchers
QuoteCache(cache, require_marker) ==
  IF require_marker THEN Add(cache, StartRules, StartRules)
  ELSE Add(Add(cache, StartRules, StartRules), BreakRules, BreakRules)

\* the scan s of the quote's lines is done on the flushed state st1; c is
\* compile_sc for the child state
QuoteEntered(st1, s, c) ==
  /\ err' = s.err
  /\ sc_cache' = c.cache
  /\ stack' =
       IF s.err = "none"
       THEN SubSeq(stack, 1, Len(stack) - 1) \o
            << [Top EXCEPT !.st = s.st, !.it0 = Top.st.cursor, !.ended = FALSE,
                           !.end_pos = s.end_pos, !.brk = s.brk,
                           !.lazy = s.lazy, !.n0 = Len(st1.tokens)],
               Frame(NewState(s.text.lines, s.text.nl, "block_quote"), c.sc) >>
       ELSE [stack EXCEPT ![Len(stack)] =
               [@ EXCEPT !.st = s.st, !.it0 = Top.st.cursor, !.ended = FALSE]]
  /\ quote' = [ brk |-> s.brk, lazy |-> s.lazy, err |-> s.err,
                returned |-> FALSE, n0 |-> Len(st1.tokens),
                tokens |-> s.st.tokens ]
  /\ call' = IF s.brk = "" THEN call
             ELSE [ by |-> "parse_block_quote", rule |-> s.brk,
                    before |-> [st1 EXCEPT !.cursor = s.st.cursor],
                    after |-> s.st, env0 |-> ref_links, env1 |-> s.env,
                    \* s.lazy: the handler returned None, and the exception
                    \* is that of the continuation after it
                    ret |-> s.end_pos,
                    err |-> IF s.lazy THEN "none" ELSE s.err ]

QuoteScanned(st1, s) ==
  QuoteEntered(st1, s,
    IF s.err = "none"
    THEN compile_sc(QuoteChildRules(Depth, max_nested_level), rules,
                    QuoteCache(sc_cache, s.require_marker))
    ELSE [ sc |-> <<>>, cache |-> QuoteCache(sc_cache, s.require_marker),
           err |-> "none" ])

QuoteFlushed(i, st1) == QuoteScanned(st1, quote_scan(i, st1, ref_links, methods))

QuoteFound(m) ==
  /\ Matched("block_quote", m)
  /\ QuoteFlushed(m.line, Flushed(Top.st, m.line))
  /\ UNCHANGED << input, max_nested_level, rules, methods, phase, ref_links,
                  defs, handed, render >>

\* the iteration that dispatches to parse_block_quote, up to the call of
\* parse on the child state
do_block_quote ==
  /\ Running
  /\ QuoteFound(sc_search(Top.sc, Top.st))

\* the loop of parse is left: the rest of the text is paragraph text
parse_return ==
  /\ phase = "parsing"
  /\ err = "none"
  /\ Len(stack) > 0
  /\ ~Top.returned
  /\ \/ Top.st.cursor >= Top.st.cursor_max
     \/ sc_search(Top.sc, Top.st).line = 0
  /\ LET st == Top.st
         st1 == IF st.cursor < st.cursor_max
                THEN [add_paragraph(st, get_text(st, st.cursor_max))
                        EXCEPT !.cursor = st.cursor_max]
                ELSE st
     IN stack' = [stack EXCEPT ![Len(stack)] =
                    [@ EXCEPT !.st = st1, !.returned = TRUE]]
  /\ phase' = IF Len(stack) = 1 THEN "done" ELSE phase
  /\ UNCHANGED << input, max_nested_level, rules, methods, sc_cache,
                  ref_links, err, call, quote, defs, handed, render >>

\* parse of the child state has returned: parse_block_quote emits its token
\* and returns, and the loop of the outer state sets its cursor
quote_return ==
  /\ phase = "parsing"
  /\ err = "none"
  /\ Len(stack) >= 2
  /\ Top.returned
  /\ LET outer == stack[Len(stack) - 1]
         f     == quote_finish(outer.st, Top.st.tokens, outer.end_pos)
     IN /\ stack' = SubSeq(stack, 1, Len(stack) - 2) \o
                      << [outer EXCEPT !.st = [f.st EXCEPT !.cursor = f.ret],
                                       !.ended = TRUE] >>
        /\ quote' = [ brk |-> outer.brk, lazy |-> outer.lazy, err |-> "none",
                      returned |-> TRUE, n0 |-> outer.n0,
                      tokens |-> f.st.tokens ]
  /\ UNCHANGED << input, max_nested_level, rules, methods, sc_cache, phase,
                  ref_links, err, call, defs, handed, render >>

Next ==
  \/ parse_begin
  \/ do_blank_line
  \/ do_thematic_break
  \/ do_indent_code
  \/ do_fenced_code
  \/ do_axt_heading
  \/ do_setex_heading
  \/ do_ref_link
  \/ do_raw_html
  \/ do_block_quote
  \/ parse_return
  \/ quote_return

Spec == Init /\ [][Next]_vars

\* ------------------------------------------------------ properties of parse
\* C1: every iteration of the loop of parse ends with the cursor strictly
\* greater than at its start: an iteration that has started has either ended
\* so, or is still in a handler that waits for the parse of a child state
C1_IterationAdvances ==
  \A k \in 1..Len(stack) :
    stack[k].it0 >= 0 =>
      IF stack[k].ended THEN stack[k].st.cursor > stack[k].it0
      ELSE k < Len(stack) /\ err = "none"

\* an iteration of the root state was left by an exception, its cursor where
\* the iteration found it
C1_IterationAborted ==
  /\ Len(stack) = 1
  /\ Top.it0 >= 0
  /\ ~Top.ended
  /\ err /= "none"
  /\ Top.st.cursor = Top.it0

\* C2: when the handler parse dispatched to returns no position, parse adds
\* the text up to the end of the current line as paragraph text and moves
\* the cursor to that line end
C2_DeclinedLineIsParagraph ==
  (call.rule /= "" /\ call.by = "parse" /\ call.ret = 0 /\ call.err = "none") =>
    /\ err = "none"
    /\ has_last_paragraph(Top.st)
    /\ Top.st.cursor = find_line_end(call.after)

\* a handler declined and parse raised instead of falling back
C2_DeclinedRaises ==
  /\ call.rule /= ""
  /\ call.by = "parse"
  /\ call.ret = 0
  /\ call.err = "none"
  /\ err = "NameError"

\* length of the longest chain of nested block_quote tokens in tokens
RECURSIVE ContainerDepth(_)
ContainerDepth(tokens) ==
  IF tokens = <<>> THEN 0
  ELSE LET t == Head(tokens)
           d == IF t.type = "block_quote" THEN 1 + ContainerDepth(t.children)
                ELSE 0
           e == ContainerDepth(Tail(tokens))
       IN IF d > e THEN d ELSE e

\* C4: in the tokens of a parsed document no chain of nested container
\* tokens is longer than max_nested_level
C4_DepthBounded ==
  phase = "done" => ContainerDepth(stack[1].st.tokens) <= max_nested_level

\* a parsed document whose block quotes nest one deeper than max_nested_level
C4_DepthExceeded ==
  /\ phase = "done"
  /\ ContainerDepth(stack[1].st.tokens) = max_nested_level + 1

\* C6: a line without marker that follows a quoted line not ending in a blank
\* line, and matches no break rule, is taken into the quote: the handler goes
\* on without an exception and emits the quote as the next token
C6_LazyLineJoinsQuote ==
  (quote.lazy /\ quote.brk = "") =>
    /\ quote.err = "none"
    /\ quote.returned =>
         /\ Len(quote.tokens) = quote.n0 + 1
         /\ quote.tokens[quote.n0 + 1].type = "block_quote"

\* parse_block_quote met a lazy continuation line and raised
C6_LazyLineRaises ==
  /\ quote.lazy
  /\ quote.brk = ""
  /\ quote.err = "AttributeError"

BreakTokens == { "blank_line", "thematic_break", "block_code", "block_html" }

\* C7: when a line matching a break rule ends a block quote, the handler of
\* that rule runs on the outer state, and the outer state then holds the
\* block_quote token followed by the token of the break rule, for each of
\* blank_line, thematic_break, fenced_code and block_html
C7_BreakTokenFollowsQuote ==
  (quote.brk /= "" /\ ~quote.lazy) =>
    /\ quote.err = "none"
    /\ quote.returned =>
         /\ Len(quote.tokens) = quote.n0 + 2
         /\ quote.tokens[quote.n0 + 1].type = "block_quote"
         /\ quote.tokens[quote.n0 + 2].type \in BreakTokens

\* the line that ends the quote matched block_html, which has no handler
C7_BreakRuleWithoutHandler ==
  /\ quote.brk = "block_html"
  /\ quote.err = "KeyError"

\* for the break rules that have a handler the tokens come in source order
C7_HandledBreakInOrder ==
  (quote.brk \in {"blank_line", "thematic_break", "fenced_code"}
     /\ ~quote.lazy /\ quote.returned) =>
    /\ Len(quote.tokens) = quote.n0 + 2
    /\ quote.tokens[quote.n0 + 1].type = "block_quote"
    /\ quote.tokens[quote.n0 + 2].type \in BreakTokens

\* ------------------------------------------- link reference definitions only
InitRef ==
  /\ input \in RefDocs
  /\ max_nested_level = DefaultMaxNested
  /\ ParserInit

NextRef ==
  \/ parse_begin
  \/ do_blank_line
  \/ do_ref_link
  \/ do_block_quote
  \/ parse_return
  \/ quote_return

SpecRef == InitRef /\ [][NextRef]_vars

\* the first definition of defs with key k
FirstDef(k) ==
  defs[CHOOSE n \in 1..Len(defs) :
         /\ defs[n].key = k
         /\ \A m \in 1..(n - 1) : defs[m].key /= k]

\* C3: within one document the table of link reference definitions holds,
\* for each key, the definition that was accepted first, whatever state of
\* the document (root or child) accepted it; a later one never replaces it
C3_FirstDefinitionWins ==
  /\ DOMAIN ref_links = { defs[n].key : n \in 1..Len(defs) }
  /\ \A k \in DOMAIN ref_links : ref_links[k] = FirstDef(k).attrs

\* a second definition of a key, with another destination, was accepted in a
\* child state and the table still holds the first
C3_SecondDefinitionMet ==
  /\ Len(defs) >= 2
  /\ defs[1].key = defs[2].key
  /\ defs[1].attrs /= defs[2].attrs
  /\ call.rule = "ref_link"
  /\ call.before.in_block = "block_quote"
  /\ ref_links[defs[1].key] = defs[1].attrs

\* C10: parse_ref_link emits no token.  With a paragraph open the line
\* joins it, the cursor goes to the end of the line and the table is left
\* alone; a definition enters the table only with no paragraph open
C10_RefLinkEmitsNoToken ==
  (call.rule = "ref_link" /\ call.by = "parse") =>
    /\ call.err = "none"
    /\ Len(call.after.tokens) = Len(call.before.tokens)
    /\ has_last_paragraph(call.before) =>
         /\ call.env1 = call.env0
         /\ call.ret = find_line_end(call.before)
         /\ call.after.tokens =
              [call.before.tokens EXCEPT ![Len(call.before.tokens)].text =
                 @ \o get_text(call.before, find_line_end(call.before))]
    /\ ~has_last_paragraph(call.before) =>
         /\ call.after.tokens = call.before.tokens
    /\ call.env1 /= call.env0 => ~has_last_paragraph(call.before)

\* a definition line met an open paragraph after an earlier definition had
\* entered the table
C10_DefinitionLineInParagraph ==
  /\ call.rule = "ref_link"
  /\ call.by = "parse"
  /\ has_last_paragraph(call.before)
  /\ call.ret /= 0
  /\ Len(defs) >= 1
  /\ call.env1 = call.env0

\* ------------------------------------------------------------ register_rule
\* names a caller registers: one that has a pattern in SPECIFICATION and
\* one that has none; neither is the name of a rule of RULE_NAMES
RegNames == { "list", "r1" }

\* the argument before: "" stands for None, "nope" is not a rule
Befores == { "", "blank_line", "raw_html", "nope" }

Index(seq, x) == CHOOSE k \in 1..Len(seq) : seq[k] = x /\ \A j \in 1..(k - 1) : seq[j] /= x

InsertBefore(seq, x, name) ==
  LET k == Index(seq, x) IN
  SubSeq(seq, 1, k - 1) \o <<name>> \o SubSeq(seq, k, Len(seq))

\* register_rule(name, func, before), between two documents
register_rule ==
  /\ phase = "idle"
  /\ Len(rules) < Len(RULE_NAMES) + MaxRegister
  /\ \E name \in RegNames, before \in Befores :
       /\ methods' = methods \cup {name}
       /\ IF before = "" THEN rules' = Append(rules, name) /\ err' = "none"
          ELSE IF before \in Range(rules)
          THEN rules' = InsertBefore(rules, before, name) /\ err' = "none"
          \* self.rules.index(before)
          ELSE rules' = rules /\ err' = "ValueError"
  /\ UNCHANGED << input, max_nested_level, sc_cache, phase, stack, ref_links,
                  call, quote, defs, handed, render >>

\* an iteration of parse that dispatches to a registered rule
do_registered ==
  /\ Running
  /\ \E name \in RegNames : Iterate(name)

\* parse has returned or raised, and the caller turns to the next document
next_document ==
  /\ \/ phase = "done"
     \/ phase = "parsing" /\ err /= "none"
  /\ input' \in ScDocs
  /\ phase' = "idle"
  /\ err' = "none"
  /\ stack' = <<>>
  /\ UNCHANGED << max_nested_level, rules, methods, sc_cache, ref_links, call,
                  quote, defs, handed, render >>

InitSc ==
  /\ input \in ScDocs
  /\ max_nested_level = DefaultMaxNested
  /\ ParserInit

NextSc ==
  \/ register_rule
  \/ parse_begin
  \/ do_registered
  \/ parse_return
  \/ next_document

SpecSc == InitSc /\ [][NextSc]_vars

\* C5: the matcher compile_sc hands out for the parser's own rules is
\* compiled from the rules as they are when it is handed out, registered
\* rules included
C5_MatcherFollowsRules ==
  (handed.key = <<"$">> /\ handed.err = "none") => handed.sc = handed.rules

\* parse was handed a matcher that lacks a rule registered before the call
C5_MatcherLacksRegisteredRule ==
  /\ handed.key = <<"$">>
  /\ handed.err = "none"
  /\ \E name \in RegNames : name \in Range(handed.rules) /\ name \notin Range(handed.sc)

\* --------------------------------------------------------------- parse_list
\* the caller hands parse_list the match of LIST at line i, in a new state
\* in which the text before the line is flushed as in parse
list_begin ==
  /\ phase = "idle"
  /\ \E i \in 1..Len(input.lines) :
       /\ Matches("list", input.lines[i])
       /\ stack' = << Frame(Flushed(NewState(input.lines, input.nl, "document"), i),
                            <<>>) >>
  /\ phase' = "list"
  /\ UNCHANGED << input, max_nested_level, rules, methods, sc_cache, ref_links,
                  err, call, quote, defs, handed, render >>

do_list ==
  /\ phase = "list"
  /\ err = "none"
  /\ call.rule = ""
  /\ LET st == Top.st
         r  == parse_list(LineAt(st.src, st.cursor), st, ref_links)
     IN /\ stack' = << [Top EXCEPT !.st = r.st] >>
        /\ err' = r.err
        /\ ref_links' = r.env
        /\ call' = [ by |-> "caller", rule |-> "list", before |-> st,
                     after |-> r.st, env0 |-> ref_links, env1 |-> r.env,
                     ret |-> r.ret, err |-> r.err ]
  /\ UNCHANGED << input, max_nested_level, rules, methods, sc_cache, phase,
                  quote, defs, handed, render >>

InitList ==
  /\ input \in ListDocs
  /\ max_nested_level = DefaultMaxNested
  /\ ParserInit

NextList ==
  \/ list_begin
  \/ do_list

SpecList == InitList /\ [][NextList]_vars

\* the line at the cursor of st starts a list: it is not left to the open
\* paragraph
ListStarts(st) ==
  LET b == st.src[LineAt(st.src, st.cursor)].b IN
  ~(has_last_paragraph(st) /\ (ListTextBlank(b) \/ ListStartsLate(b)))

\* C8: parse_list emits a list token; its attrs.tight is false when an item
\* holds a blank line between content, the same tight and depth are stamped
\* on every item, and list_tight of the state is true again afterwards
C8_ListTokenIsStamped ==
  (call.rule = "list" /\ ListStarts(call.before)) =>
    /\ call.err = "none"
    /\ last_token(call.after).type = "list"
    /\ LET t == last_token(call.after) IN
         /\ Len(t.children) >= 1
         /\ \A k \in 1..Len(t.children) :
              /\ t.children[k].type = "list_item"
              /\ t.children[k].attrs.tight = t.attrs.tight
              /\ t.children[k].attrs.depth = t.attrs.depth
              /\ t.attrs.tight =>
                   \A j \in 1..Len(t.children[k].children) :
                     t.children[k].children[j].type /= "blank_line"
    /\ call.after.list_tight

\* parse_list was called on a line that starts a list and raised, the state
\* without a token more
C8_ListRaises ==
  /\ call.rule = "list"
  /\ ListStarts(call.before)
  /\ call.err = "AttributeError"
  /\ call.after.tokens = call.before.tokens

\* ------------------------------------------------------------------- render
\* token lists as parse leaves them: a paragraph, then one container that
\* holds the same again, down to a run of tokens without children
Leaves ==
  { [type |-> "paragraph", text |-> " foo\n"],
    [type |-> "heading", text |-> "h", attrs |-> [level |-> 1]],
    [type |-> "blank_line"] }

Containers == { "block_quote", "tight", "loose" }

Paragraph == [type |-> "paragraph", text |-> "foo\n"]

Wrap(kind, children) ==
  IF kind = "block_quote" THEN [type |-> "block_quote", children |-> children]
  ELSE [ type |-> "list",
         attrs |-> [ordered |-> FALSE, depth |-> 0, tight |-> (kind = "tight")],
         children |-> << [ type |-> "list_item",
                           attrs |-> [depth |-> 0, tight |-> (kind = "tight")],
                           children |-> children ] >> ]

RECURSIVE Build(_, _)
Build(chain, leaves) ==
  IF chain = <<>> THEN leaves
  ELSE << Paragraph, Wrap(Head(chain), Build(Tail(chain), leaves)) >>

RenderInputs ==
  { Build(chain, leaves) :
      chain  \in UNION { [1..k -> Containers] : k \in 0..RenderDepth },
      leaves \in UNION { [1..k -> Leaves] : k \in 0..RenderWidth } }

\* text.strip(), for the texts of Leaves and Paragraph
Strip(text) ==
  CASE text = " foo\n" -> "foo"
    [] text = "foo\n"  -> "foo"
    [] OTHER           -> text

\* inline(text, env): what the inline parser gives for a text
Inline(text) == << [type |-> "text", raw |-> text] >>

\* parent=None
NoParent == [type |-> "none"]

\* postprocess_paragraph that does not look at tight
postprocess_paragraph_anywhere(token, parent) ==
  IF "attrs" \in DOMAIN parent THEN [token EXCEPT !.type = "block_text"]
  ELSE token

postprocess_paragraph(token, parent) ==
  IF /\ "attrs" \in DOMAIN parent
     /\ "tight" \in DOMAIN parent.attrs
     /\ parent.attrs.tight
  THEN [token EXCEPT !.type = "block_text"]
  ELSE token

\* tok without its text and with children
WithChildren(tok, children) ==
  [ k \in (DOMAIN tok \ {"text"}) \cup {"children"} |->
      IF k = "children" THEN children ELSE tok[k] ]

RECURSIVE _iter_render(_, _)
\* the tokens _iter_render yields; inline.renderer is None, and _call_render
\* is list(data)
_iter_render(tokens, parent) ==
  IF tokens = <<>> THEN <<>>
  ELSE LET tok == Head(tokens)
           out == IF "children" \in DOMAIN tok
                  THEN [tok EXCEPT !.children = _iter_render(tok.children, tok)]
                  ELSE IF "text" \in DOMAIN tok
                  THEN LET t == WithChildren(tok, Inline(Strip(tok.text))) IN
                       IF tok.type = "paragraph" /\ parent /= NoParent
                       THEN postprocess_paragraph(t, parent)
                       ELSE t
                  ELSE tok
       IN <<out>> \o _iter_render(Tail(tokens), parent)

_call_render(tokens, parent) == _iter_render(tokens, parent)

\* render(state, inline) on the tokens of a state
do_render ==
  /\ ~render.done
  /\ render' = [ done |-> TRUE, tokens |-> render.tokens,
                 result |-> _call_render(render.tokens, NoParent) ]
  /\ UNCHANGED << input, max_nested_level, rules, methods, sc_cache, phase,
                  stack, ref_links, err, call, quote, defs, handed >>

InitRender ==
  /\ input = [lines |-> <<>>, nl |-> TRUE]
  /\ max_nested_level = DefaultMaxNested
  /\ rules = RULE_NAMES
  /\ methods = Range(RULE_NAMES)
  /\ sc_cache = EmptyMap
  /\ phase = "idle"
  /\ stack = <<>>
  /\ ref_links = EmptyMap
  /\ err = "none"
  /\ call = NoCall
  /\ quote = NoQuote
  /\ defs = <<>>
  /\ handed = NoHanded
  /\ render \in { [done |-> FALSE, tokens |-> ts, result |-> <<>>] :
                    ts \in RenderInputs }

NextRender == do_render

SpecRender == InitRender /\ [][NextRender]_vars

TightItem(parent) == parent.type = "list_item" /\ parent.attrs.tight

\* as is what render leaves of the tokens bs, whose parent token is parent
RECURSIVE Rendered(_, _, _)
Rendered(bs, as, parent) ==
  /\ Len(as) = Len(bs)
  /\ \A k \in 1..Len(bs) :
       LET b == bs[k]
           a == as[k]
       IN /\ "text" \notin DOMAIN a
          /\ "children" \in DOMAIN b =>
               /\ a.type = b.type
               /\ Rendered(b.children, a.children, b)
          /\ "text" \in DOMAIN b =>
               /\ a.children = Inline(Strip(b.text))
               /\ a.type = IF b.type = "paragraph" /\ TightItem(parent)
                           THEN "block_text" ELSE b.type
          /\ ("children" \notin DOMAIN b /\ "text" \notin DOMAIN b) => a = b

\* C9: after render a paragraph token has type block_text exactly when its
\* parent is a list_item with attrs.tight true; a paragraph at top level, in a
\* block quote or in a loose item stays a paragraph; every token that had a
\* text has lost it and holds the inline children of the stripped text
C9_BlockTextIffTightItem ==
  render.done => Rendered(render.tokens, render.result, NoParent)

\* a rendered tight item that holds a block_text and a block quote whose
\* paragraph stayed a paragraph
C9_TightItemWithQuote ==
  /\ render.done
  /\ Len(render.result) = 2
  /\ render.result[1].type = "paragraph"
  /\ render.result[2].type = "list"
  /\ LET item == render.result[2].children[1] IN
       /\ item.attrs.tight
       /\ Len(item.children) = 2
       /\ item.children[1].type = "block_text"
       /\ item.children[2].type = "block_quote"
       /\ Len(item.children[2].children) >= 1
       /\ item.children[2].children[1].type = "paragraph"
       /\ "text" \notin DOMAIN item.children[2].children[1]

\* ------------------------------------------- handlers that may decline a line
InitHandlers ==
  /\ input \in HandlerDocs
  /\ max_nested_level = DefaultMaxNested
  /\ ParserInit

NextHandlers ==
  \/ parse_begin
  \/ do_blank_line
  \/ do_fenced_code
  \/ do_setex_heading
  \/ do_ref_link
  \/ do_raw_html
  \/ do_block_quote
  \/ parse_return
  \/ quote_return

SpecHandlers == InitHandlers /\ [][NextHandlers]_vars

\* the body of the line at the cursor of st
BodyAtCursor(st) == st.src[LineAt(st.src, st.cursor)].b

\* C11: parse_setex_heading changes the state only when the last token is a
\* paragraph; it then makes that token a heading of level 1 for an underline
\* of = and 2 for one of -, with the same text, and leaves the number of
\* tokens and every earlier token as they were
C11_SetextRewritesInPlace ==
  (call.rule = "setex_heading" /\ call.by = "parse") =>
    LET n == Len(call.before.tokens) IN
    /\ call.err = "none"
    /\ call.env1 = call.env0
    /\ call.after.cursor = call.before.cursor
    /\ IF has_last_paragraph(call.before)
       THEN /\ call.ret /= 0
            /\ call.after.tokens =
                 [call.before.tokens EXCEPT ![n] =
                    [ type  |-> "heading",
                      text  |-> call.before.tokens[n].text,
                      attrs |-> [level |-> IF BodyAtCursor(call.before) = "==="
                                           THEN 1 ELSE 2] ]]
       ELSE /\ call.ret = 0
            /\ call.after = call.before

\* an underline of - met a paragraph that follows another token of the same
\* state, and the paragraph became a heading of level 2
C11_SecondTokenRewritten ==
  /\ call.rule = "setex_heading"
  /\ call.by = "parse"
  /\ Len(call.before.tokens) >= 2
  /\ has_last_paragraph(call.before)
  /\ BodyAtCursor(call.before) = "---"
  /\ last_token(call.after).type = "heading"
  /\ last_token(call.after).attrs.level = 2

C13_CursorInBounds ==
  \A k \in 1..Len(stack) :
    /\ 0 <= stack[k].st.cursor
    /\ stack[k].st.cursor <= stack[k].st.cursor_max
    /\ stack[k].returned => stack[k].st.cursor = stack[k].st.cursor_max

\* parse has returned for a document without a last newline, the cursor one
\* past cursor_max
C13_CursorPastEnd ==
  /\ phase = "done"
  /\ err = "none"
  /\ ~input.nl
  /\ stack[1].st.cursor = stack[1].st.cursor_max + 1

\* for a text that ends in a newline the cursor stays in its bounds
C13_CursorInBoundsWithNewline ==
  \A k \in 1..Len(stack) :
    stack[k].st.nl =>
      /\ 0 <= stack[k].st.cursor
      /\ stack[k].st.cursor <= stack[k].st.cursor_max
      /\ stack[k].returned => stack[k].st.cursor = stack[k].st.cursor_max

====
